---- MODULE Spec2Model ----
(***************************************************************************)
(* Model of pkg/etcd/tasks.go: the etcd bootstrap and join tasks of        *)
(* kubekey.  Every task is a method Execute(runtime) run for one remote    *)
(* host; the tasks share one *EtcdCluster held in the pipeline cache under *)
(* the key common.ETCDCluster and one small cache per host.                *)
(*                                                                         *)
(* Strings are sequences of tokens (a token is an opaque piece of text),   *)
(* so fmt.Sprintf is concatenation, strings.Join, strings.Index and        *)
(* strings.Contains are computed on the tokens.                            *)
(***************************************************************************)
EXTENDS Integers, Sequences, FiniteSets, TLC

\* Number of hosts of the inventory.
NumHosts == 3
\* Number of tasks run one after another in the runs explored.
MaxSteps == 4
\* Number of hosts whose units are dispatched in parallel.
NumParallel == 2
\* A file transfer that fails does so at one of the first MaxFailAt files.
MaxFailAt == 2

Hosts == 1..NumHosts

VARIABLES
    envFile,     \* envFile[h]: /etc/etcd.env on host h: <<>> absent, <<name>> its ETCD_NAME
    hostCache,   \* hostCache[h]: host.GetCache(): <<>> or <<[ETCDName, ETCDExist]>>
    cache,       \* PipelineCache[common.ETCDCluster]: <<>> or <<o>>, o the *EtcdCluster
    heap,        \* heap[o]: the EtcdCluster object allocated by host o's GetStatus
    lastOp,      \* outcome of the last Execute (or of the last step of one)
    pc,          \* pc[h]: position of host h's unit of work
    loc,         \* loc[h]: local variables of host h's running Execute
    steps,       \* number of tasks run so far
    roles,       \* runtime.GetHostsByRole: [etcd |-> hosts, master |-> hosts]
    moduleCache, \* ModuleCache: each key holds <<>> (unset) or <<value>>
    staged,      \* the files fetched into the local ETCD_certs directory
    pushed       \* pushed[h]: the files copied to the certificate directory of h

\* The state of the certificate tasks.
certVars == <<roles, moduleCache, staged, pushed>>

\* The state of the cluster tasks, apart from the result and the positions.
clusterVars == <<envFile, hostCache, cache, heap, loc, steps>>

vars == <<envFile, hostCache, cache, heap, lastOp, pc, loc, steps, certVars>>

----------------------------------------------------------------------------
(* Strings *)

Str(t) == <<t>>

\* strings.Index(s, t) for a one-token t: 0-based index of its first
\* occurrence, -1 when there is none.
Index(s, t) ==
    IF \E i \in 1..Len(s) : s[i] = t
    THEN (CHOOSE i \in 1..Len(s) : s[i] = t /\ \A j \in 1..(i - 1) : s[j] # t) - 1
    ELSE -1

\* s[n:] of Go (n is 0-based).
SliceFrom(s, n) == SubSeq(s, n + 1, Len(s))

\* strings.Contains(s, sub).
Contains(s, sub) ==
    \E i \in 0..(Len(s) - Len(sub)) : SubSeq(s, i + 1, i + Len(sub)) = sub

RECURSIVE Join(_, _)
\* strings.Join(elems, sep).
Join(elems, sep) ==
    IF Len(elems) = 0 THEN <<>>
    ELSE IF Len(elems) = 1 THEN elems[1]
    ELSE elems[1] \o sep \o Join(Tail(elems), sep)

----------------------------------------------------------------------------
(* Host inventory (connector.Host) *)

GetName(h) == Str("node" \o ToString(h))
GetInternalAddress(h) == Str("10.0.0." \o ToString(h))
GetArch(h) == IF h = 1 THEN "amd64" ELSE "arm64"

\* runtime.GetHostsByRole(common.ETCD): every host, in inventory order.
EtcdRoleHosts == [i \in 1..NumHosts |-> i]

\* runtime.GetHostsByRole(common.Master): the first host of the inventory.
MasterRoleHosts == <<1>>

NewCluster == "new"
ExistCluster == "existing"
LocalCertsDir == "localCertsDir"
CertsFileList == "certsFileList"
NoToken == "none"

----------------------------------------------------------------------------
(* Pieces of the handlers *)

\* fmt.Sprintf("%s=https://%s:2380", etcdName, host.GetInternalAddress())
PeerEntry(etcdName, h) ==
    etcdName \o <<"=", "https://">> \o GetInternalAddress(h) \o Str(":2380")

\* fmt.Sprintf("https://%s:2379", host.GetInternalAddress())
ClientEndpoint(h) == Str("https://") \o GetInternalAddress(h) \o Str(":2379")

\* Output of "cat /etc/etcd.env | grep ETCD_NAME" on host h.
EtcdEnvLine(h) == <<"ETCD_NAME", "=">> \o envFile[h][1]

\* etcdEnv[strings.Index(etcdEnv, "=")+1:]
ParseEtcdName(etcdEnv) == SliceFrom(etcdEnv, Index(etcdEnv, "=") + 1)

\* fmt.Sprintf("etcd-%s", host.GetName())
DefaultEtcdName(h) == Str("etcd-") \o GetName(h)

\* cluster := &EtcdCluster{clusterExist: true, accessAddresses: "", peerAddresses: []string{}}
FreshCluster == [clusterExist |-> TRUE, accessAddresses |-> <<>>, peerAddresses |-> <<>>]

\* The member name of a peer entry: the text before its first "=".
EntryName(e) == SubSeq(e, 1, Index(e, "="))

----------------------------------------------------------------------------
(* Errors (github.com/pkg/errors) *)

Nil == "nil"
\* errors.New(msg)
NewError(msg) == msg
\* errors.WithStack(err): nil for a nil err.
WithStack(err) == err
\* errors.Wrap(err, msg): nil for a nil err, else msg in front of err.
Wrap(err, msg) == IF err = Nil THEN Nil ELSE msg \o ": " \o err

\* The error a failing runner call or template execution hands back.
RunnerError == "runner failed"
ErrOf(failed) == IF failed THEN RunnerError ELSE Nil

ErrNoNode == NewError("get etcd node status by host label failed")
ErrNoCluster == NewError("get etcd cluster status by pipeline cache failed")

----------------------------------------------------------------------------
(* The shared store and the outcome record *)

\* v, ok := PipelineCache.Get(common.ETCDCluster)
CacheOk == cache # <<>>
\* The EtcdCluster the cached pointer refers to, when CacheOk.
Cluster == heap[cache[1]]

\* etcdName, ok := host.GetCache().GetMustString(common.ETCDName)
NameOk(h) == hostCache[h] # <<>>
NameOf(h) == hostCache[h][1].ETCDName

\* What one Execute did: the error it returned, the State and peerAddresses
\* it handed to the template (NoToken when it built none), whether the
\* template was written, whether it ran a command through the runner, and
\* the output of a member list command that succeeded.
Outcome(op, h, err, token, peers, wrote, cmd, out) ==
    [op |-> op, host |-> h, err |-> err, token |-> token, peers |-> peers,
     wrote |-> wrote, cmd |-> cmd, out |-> out]

Returned(op, h, err, cmd) == Outcome(op, h, err, NoToken, <<>>, FALSE, cmd, <<>>)

\* No Execute has returned a result that the runner has yet to take.
NoOutcome == Returned("none", 1, Nil, FALSE)

Failed == lastOp.err # Nil

TypeOK ==
    /\ \A h \in Hosts : Len(envFile[h]) <= 1 /\ Len(hostCache[h]) <= 1
    /\ cache \in {<<>>} \cup {<<o>> : o \in Hosts}
    /\ \A o \in Hosts : /\ heap[o].clusterExist \in BOOLEAN
                        /\ Len(heap[o].peerAddresses) <= 2 * NumHosts + MaxSteps
    /\ lastOp.token \in {NoToken, NewCluster, ExistCluster}

----------------------------------------------------------------------------
(* GetStatus.Execute *)

\* The existing-member branch with a cluster already in the cache:
\* c.peerAddresses = append(...); c.clusterExist = true.
FoldMember(c, entry) ==
    [c EXCEPT !.peerAddresses = Append(c.peerAddresses, entry),
              !.clusterExist = TRUE]

\* The existing-member branch with an empty cache: the fresh cluster gets
\* the entry and clusterExist = true.
FirstMember(entry) ==
    [FreshCluster EXCEPT !.peerAddresses = Append(FreshCluster.peerAddresses, entry),
                         !.clusterExist = TRUE]

\* A no-marker branch that leaves the fresh cluster as it was built.
FirstNonMemberExists == FreshCluster

\* The no-marker branch with an empty cache: cluster.clusterExist = false.
FirstNonMember == [FreshCluster EXCEPT !.clusterExist = FALSE]

\* A no-marker branch that records "no cluster" whatever the cache holds.
NonMemberClusterReset(ok, c) ==
    IF ok THEN [c EXCEPT !.clusterExist = FALSE] ELSE FirstNonMember

\* The cluster the cache holds after the no-marker branch: the one it held
\* (ok), untouched, else the fresh one with clusterExist = false.
NonMemberCluster(ok, c) == IF ok THEN c ELSE FirstNonMember

\* The whole of GetStatus.Execute for host h; fileErr and cmdErr say whether
\* FileExist and the cat command fail.
DoGetStatus(h, fileErr, cmdErr) ==
    LET exist == envFile[h] # <<>>
        etcdName == ParseEtcdName(EtcdEnvLine(h))
        entry == PeerEntry(etcdName, h)
    IN  /\ UNCHANGED envFile
        /\ IF fileErr
           THEN /\ lastOp' = Returned("GetStatus", h, ErrOf(TRUE), FALSE)
                /\ UNCHANGED <<hostCache, cache, heap>>
           ELSE IF exist
           THEN IF cmdErr
                THEN /\ lastOp' = Returned("GetStatus", h, ErrOf(TRUE), TRUE)
                     /\ UNCHANGED <<hostCache, cache, heap>>
                ELSE /\ hostCache' = [hostCache EXCEPT
                            ![h] = <<[ETCDName |-> etcdName, ETCDExist |-> TRUE]>>]
                     /\ IF CacheOk
                        THEN /\ heap' = [heap EXCEPT ![cache[1]] = FoldMember(Cluster, entry)]
                             /\ UNCHANGED cache
                        ELSE /\ heap' = [heap EXCEPT ![h] = FirstMember(entry)]
                             /\ cache' = <<h>>
                     /\ lastOp' = Returned("GetStatus", h, Nil, TRUE)
           ELSE /\ hostCache' = [hostCache EXCEPT
                       ![h] = <<[ETCDName |-> DefaultEtcdName(h), ETCDExist |-> FALSE]>>]
                /\ LET o == IF CacheOk THEN cache[1] ELSE h
                   IN  /\ heap' = [heap EXCEPT ![o] = NonMemberCluster(CacheOk, heap[o])]
                       /\ cache' = <<o>>
                /\ lastOp' = Returned("GetStatus", h, Nil, FALSE)

----------------------------------------------------------------------------
(* GenerateAccessAddress.Execute *)

\* The client endpoint of the first host of the etcd role alone.
AccessAddressesOfFirst(hosts) == ClientEndpoint(hosts[1])

\* addrList joined: the client endpoint of every host of the etcd role.
AccessAddressesOf(hosts) ==
    Join([i \in 1..Len(hosts) |-> ClientEndpoint(hosts[i])], Str(","))

SetAccessAddresses(c, accessAddresses) == [c EXCEPT !.accessAddresses = accessAddresses]

DoGenerateAccessAddress(h) ==
    /\ UNCHANGED <<envFile, hostCache, cache>>
    /\ IF CacheOk
       THEN /\ heap' = [heap EXCEPT ![cache[1]] =
                            SetAccessAddresses(Cluster, AccessAddressesOf(EtcdRoleHosts))]
            /\ lastOp' = Returned("GenerateAccessAddress", h, Nil, FALSE)
       ELSE /\ UNCHANGED heap
            /\ lastOp' = Returned("GenerateAccessAddress", h, ErrNoCluster, FALSE)

----------------------------------------------------------------------------
(* HealthCheck.Execute and healthCheck *)

\* healthCheck(runtime, cluster): runs etcdctl cluster-health against
\* cluster.accessAddresses; cmdErr says whether the command fails.
healthCheck(h, cluster, cmdErr) == Wrap(WithStack(ErrOf(cmdErr)), "etcd health check failed")

\* A HealthCheck that goes on with an empty cluster when the cache holds none.
DoHealthCheckUnguarded(h, cmdErr) ==
    /\ UNCHANGED <<envFile, hostCache, cache, heap>>
    /\ lastOp' = Returned("HealthCheck", h,
                          healthCheck(h, IF CacheOk THEN Cluster ELSE FreshCluster, cmdErr), TRUE)

DoHealthCheck(h, cmdErr) ==
    /\ UNCHANGED <<envFile, hostCache, cache, heap>>
    /\ IF CacheOk
       THEN lastOp' = Returned("HealthCheck", h, healthCheck(h, Cluster, cmdErr), TRUE)
       ELSE lastOp' = Returned("HealthCheck", h, ErrNoCluster, FALSE)

----------------------------------------------------------------------------
(* refreshConfig, GenerateConfig.Execute, RefreshConfig.Execute *)

\* The util.Data refreshConfig hands to the etcd.env template.
RenderData(h, endpoints, state, etcdName) ==
    [Name |-> etcdName, Ip |-> GetInternalAddress(h), Hostname |-> GetName(h),
     State |-> state, peerAddresses |-> Join(endpoints, Str(",")),
     UnsupportedArch |-> (GetArch(h) # "amd64"), Arch |-> GetArch(h)]

\* refreshConfig: the template is written to /etc/etcd.env of the host unless
\* its execution fails; the file then names the member (Data "Name").
refreshConfig(h, endpoints, state, etcdName, renderErr, op) ==
    LET data == RenderData(h, endpoints, state, etcdName)
    IN  /\ envFile' = IF renderErr THEN envFile ELSE [envFile EXCEPT ![h] = <<data.Name>>]
        /\ lastOp' = Outcome(op, h, ErrOf(renderErr), data.State, data.peerAddresses,
                             ~renderErr, FALSE, <<>>)

\* An entry put in front of the list instead of behind it.
PrependPeer(c, entry) == [c EXCEPT !.peerAddresses = <<entry>> \o c.peerAddresses]

\* cluster.peerAddresses = append(cluster.peerAddresses, entry)
AppendPeer(c, entry) == [c EXCEPT !.peerAddresses = Append(c.peerAddresses, entry)]

\* Endpoints taken before the host's own entry was appended.
ConfigEndpointsBeforeAppend(c) == SubSeq(c.peerAddresses, 1, Len(c.peerAddresses) - 1)

\* The endpoints GenerateConfig hands to refreshConfig: cluster.peerAddresses,
\* read after the append.
ConfigEndpoints(c) == c.peerAddresses

\* A State chosen from the number of peers instead of clusterExist.
ConfigStateByPeers(c) == IF Len(c.peerAddresses) <= 1 THEN NewCluster ELSE ExistCluster

\* if !cluster.clusterExist { NewCluster } else { ExistCluster }
ConfigState(c) == IF ~c.clusterExist THEN NewCluster ELSE ExistCluster

DoGenerateConfig(h, renderErr) ==
    /\ UNCHANGED <<hostCache, cache>>
    /\ IF ~NameOk(h)
       THEN /\ lastOp' = Returned("GenerateConfig", h, ErrNoNode, FALSE)
            /\ UNCHANGED <<envFile, heap>>
       ELSE IF CacheOk
       THEN /\ heap' = [heap EXCEPT ![cache[1]] = AppendPeer(Cluster, PeerEntry(NameOf(h), h))]
            /\ refreshConfig(h, ConfigEndpoints(heap'[cache[1]]), ConfigState(heap'[cache[1]]),
                             NameOf(h), renderErr, "GenerateConfig")
       ELSE /\ lastOp' = Returned("GenerateConfig", h, ErrNoCluster, FALSE)
            /\ UNCHANGED <<envFile, heap>>

\* A State that ignores r.ToExisting.
RefreshStateIgnoringFlag(toExisting, c) ==
    IF ~c.clusterExist THEN NewCluster ELSE ExistCluster

\* The State RefreshConfig renders: ExistCluster when r.ToExisting, else as
\* GenerateConfig chooses it.
RefreshState(toExisting, c) ==
    IF toExisting THEN ExistCluster
    ELSE IF ~c.clusterExist THEN NewCluster ELSE ExistCluster

DoRefreshConfig(h, toExisting, renderErr) ==
    /\ UNCHANGED <<hostCache, cache, heap>>
    /\ IF ~NameOk(h)
       THEN /\ lastOp' = Returned("RefreshConfig", h, ErrNoNode, FALSE)
            /\ UNCHANGED envFile
       ELSE IF CacheOk
       THEN refreshConfig(h, Cluster.peerAddresses, RefreshState(toExisting, Cluster),
                          NameOf(h), renderErr,
                          IF toExisting THEN "RefreshConfigToExisting" ELSE "RefreshConfig")
       ELSE /\ lastOp' = Returned("RefreshConfig", h, ErrNoCluster, FALSE)
            /\ UNCHANGED envFile

----------------------------------------------------------------------------
(* JoinMember.Execute and CheckMember.Execute *)

\* A JoinMember that records the joined member in peerAddresses.
DoJoinMemberRecording(h, cmdErr) ==
    /\ UNCHANGED <<envFile, hostCache, cache>>
    /\ IF ~NameOk(h)
       THEN /\ lastOp' = Returned("JoinMember", h, ErrNoNode, FALSE)
            /\ UNCHANGED heap
       ELSE IF CacheOk
       THEN /\ lastOp' = Returned("JoinMember", h,
                                  Wrap(WithStack(ErrOf(cmdErr)), "add etcd member failed"), TRUE)
            /\ heap' = IF cmdErr THEN heap
                       ELSE [heap EXCEPT ![cache[1]] =
                                [@ EXCEPT !.peerAddresses =
                                     Append(@, PeerEntry(NameOf(h), h))]]
       ELSE /\ lastOp' = Returned("JoinMember", h, ErrNoCluster, FALSE)
            /\ UNCHANGED heap

DoJoinMember(h, cmdErr) ==
    /\ UNCHANGED <<envFile, hostCache, cache, heap>>
    /\ IF ~NameOk(h)
       THEN lastOp' = Returned("JoinMember", h, ErrNoNode, FALSE)
       ELSE IF CacheOk
       THEN lastOp' = Returned("JoinMember", h,
                               Wrap(WithStack(ErrOf(cmdErr)), "add etcd member failed"), TRUE)
       ELSE lastOp' = Returned("JoinMember", h, ErrNoCluster, FALSE)

\* One line of "etcdctl member list" for a started member on host m.
MemberLine(m) ==
    Str("id: name=") \o DefaultEtcdName(m) \o Str(" peerURLs=https://")
        \o GetInternalAddress(m) \o Str(":2380") \o Str(" clientURLs=")
        \o ClientEndpoint(m) \o Str(" isLeader=false\n")

RECURSIVE MemberListOf(_, _)
\* The member list of a cluster whose members are the hosts of ms, from host i on.
MemberListOf(ms, i) ==
    IF i > NumHosts THEN <<>>
    ELSE (IF i \in ms THEN MemberLine(i) ELSE <<>>) \o MemberListOf(ms, i + 1)

\* The outputs the member list command can give.
MemberLists == {MemberListOf(ms, 1) : ms \in SUBSET Hosts}

\* What CheckMember returns once the cache held the cluster: err is the
\* error of the member list command, memberList its output.
CheckMemberResult(h, err, memberList) ==
    IF err # Nil
    THEN Wrap(WithStack(err), "list etcd member failed")
    ELSE IF ~Contains(memberList, ClientEndpoint(h))
    THEN Wrap(WithStack(err), "add etcd member failed")
    ELSE Nil

\* cmdErr says whether the member list command fails; it has no output then.
DoCheckMember(h, cmdErr, memberList) ==
    /\ cmdErr => memberList = <<>>
    /\ UNCHANGED <<envFile, hostCache, cache, heap>>
    /\ IF CacheOk
       THEN lastOp' = Outcome("CheckMember", h,
                              CheckMemberResult(h, ErrOf(cmdErr), memberList),
                              NoToken, <<>>, FALSE, TRUE, memberList)
       ELSE lastOp' = Returned("CheckMember", h, ErrNoCluster, FALSE)

----------------------------------------------------------------------------
(* ExecCertsScript.Execute, generateCertsFiles, SyncCertsFile.Execute *)

\* A ModuleCache in which neither key is set.
EmptyModuleCache == [k \in {LocalCertsDir, CertsFileList} |-> <<>>]

\* filepath.Join(runtime.GetWorkDir(), "ETCD_certs")
LocalDir == <<"workdir", "/", "ETCD_certs">>

Range(s) == {s[i] : i \in 1..Len(s)}

\* The four files the first loop of generateCertsFiles appends for a host.
MemberCerts(h) ==
    << <<"admin-">> \o GetName(h) \o <<".pem">>,
       <<"admin-">> \o GetName(h) \o <<"-key.pem">>,
       <<"member-">> \o GetName(h) \o <<".pem">>,
       <<"member-">> \o GetName(h) \o <<"-key.pem">> >>

\* Node files whose key file is not named for the host.
NodeCertsSharedKey(h) ==
    << <<"node-">> \o GetName(h) \o <<".pem">>, <<"node-", "key.pem">> >>

\* The two files the second loop of generateCertsFiles appends for a host.
NodeCerts(h) ==
    << <<"node-">> \o GetName(h) \o <<".pem">>,
       <<"node-">> \o GetName(h) \o <<"-key.pem">> >>

RECURSIVE AppendMemberCerts(_, _)
\* for _, host := range runtime.GetHostsByRole(common.ETCD) { append ... }
AppendMemberCerts(certsList, hosts) ==
    IF hosts = <<>> THEN certsList
    ELSE AppendMemberCerts(certsList \o MemberCerts(Head(hosts)), Tail(hosts))

RECURSIVE AppendNodeCerts(_, _)
\* for _, host := range runtime.GetHostsByRole(common.Master) { append ... }
AppendNodeCerts(certsList, hosts) ==
    IF hosts = <<>> THEN certsList
    ELSE AppendNodeCerts(certsList \o NodeCerts(Head(hosts)), Tail(hosts))

\* A derivation that stops after the first host of each role.
generateCertsFilesFirstHosts(r) ==
    AppendNodeCerts(
        AppendMemberCerts(<< <<"ca.pem">>, <<"ca-key.pem">> >>,
                          IF r.etcd = <<>> THEN <<>> ELSE <<Head(r.etcd)>>),
        IF r.master = <<>> THEN <<>> ELSE <<Head(r.master)>>)

\* generateCertsFiles(runtime), r the hosts of the two roles.
generateCertsFiles(r) ==
    AppendNodeCerts(
        AppendMemberCerts(<< <<"ca.pem">>, <<"ca-key.pem">> >>, r.etcd),
        r.master)

\* A ModuleCache that gets the two keys whatever the task returns.
ModuleCacheSetAlways(mc, files, err) ==
    [mc EXCEPT ![LocalCertsDir] = <<LocalDir>>, ![CertsFileList] = <<files>>]

\* The ModuleCache after ExecCertsScript: the two keys are set by the last
\* two statements, which run only when nothing before them returned.
ModuleCacheSet(mc, files, err) ==
    IF err = Nil
    THEN [mc EXCEPT ![LocalCertsDir] = <<LocalDir>>, ![CertsFileList] = <<files>>]
    ELSE mc

\* The steps of ExecCertsScript.Execute that can fail, in order.
ExecSteps == <<"chmod", "script", "cp", "mkdir", "fetch">>

\* The error ExecCertsScript.Execute returns when the step fails.
ExecError(step) ==
    CASE step = "chmod"  -> ErrOf(TRUE)
      [] step = "script" -> Wrap(WithStack(ErrOf(TRUE)), "generate etcd certs failed")
      [] step = "cp"     -> Wrap(WithStack(ErrOf(TRUE)), "copy certs result failed")
      [] step = "mkdir"  -> ErrOf(TRUE)
      [] step = "fetch"  -> Wrap(WithStack(ErrOf(TRUE)), "fetch etcd certs file failed")
      [] OTHER           -> Nil

\* The files a transfer loop over files has copied when the transfer of
\* file number failAt fails (0: none fails).
Transferred(files, failAt) ==
    IF failAt = 0 THEN Range(files) ELSE Range(SubSeq(files, 1, failAt - 1))

\* The whole of ExecCertsScript.Execute on host h: step is the step that
\* fails ("none": none does), failAt the file whose Fetch fails when the
\* step is "fetch".
DoExecCertsScript(h, step, failAt) ==
    LET files == generateCertsFiles(roles)
        err == ExecError(step)
    IN  /\ staged' = IF step = "none" THEN staged \cup Range(files)
                     ELSE IF step = "fetch" THEN staged \cup Transferred(files, failAt)
                     ELSE staged
        /\ moduleCache' = ModuleCacheSet(moduleCache, files, err)
        /\ lastOp' = Returned("ExecCertsScript", h, err, TRUE)
        /\ UNCHANGED <<roles, pushed>>

\* The whole of SyncCertsFile.Execute on host h: failAt is the file whose
\* SudoScp fails (0: none fails).
DoSyncCertsFile(h, failAt) ==
    IF moduleCache[LocalCertsDir] = <<>>
    THEN /\ lastOp' = Returned("SyncCertsFile", h,
                               NewError("get etcd local certs dir by module cache failed"),
                               FALSE)
         /\ UNCHANGED certVars
    ELSE IF moduleCache[CertsFileList] = <<>>
    THEN /\ lastOp' = Returned("SyncCertsFile", h,
                               NewError("get etcd certs file list by module cache failed"),
                               FALSE)
         /\ UNCHANGED certVars
    ELSE LET fileList == moduleCache[CertsFileList][1]
         IN  /\ failAt <= Len(fileList)
             /\ pushed' = [pushed EXCEPT ![h] = @ \cup Transferred(fileList, failAt)]
             /\ lastOp' = Returned("SyncCertsFile", h,
                                   Wrap(WithStack(ErrOf(failAt # 0)),
                                        "scp etcd certs file failed"), TRUE)
             /\ UNCHANGED <<roles, moduleCache, staged>>

----------------------------------------------------------------------------
(* Tasks run one after another, any task for any host at any time *)

\* /etc/etcd.env of a host before the run: absent, or left by an earlier
\* installation under the host's generated member name.
InitialEnvFiles(h) == {<<>>, <<DefaultEtcdName(h)>>}

\* Locals of an Execute in progress: the pointer got from the cache, the
\* slice read for an append, and the State and peerAddresses handed to the
\* template.
NoLocals == [c |-> <<>>, peers |-> <<>>, token |-> NoToken, rendered |-> <<>>]

InitStores ==
    /\ envFile \in {f \in [Hosts -> UNION {InitialEnvFiles(h) : h \in Hosts}] :
                        \A h \in Hosts : f[h] \in InitialEnvFiles(h)}
    /\ hostCache = [h \in Hosts |-> <<>>]
    /\ cache = <<>>
    /\ heap = [o \in Hosts |-> FreshCluster]
    /\ lastOp = NoOutcome
    /\ loc = [h \in Hosts |-> NoLocals]
    /\ steps = 0
    /\ roles = [etcd |-> EtcdRoleHosts, master |-> MasterRoleHosts]
    /\ moduleCache = EmptyModuleCache
    /\ staged = {}
    /\ pushed = [h \in Hosts |-> {}]

Init ==
    /\ InitStores
    /\ pc = [h \in Hosts |-> "idle"]

\* One more Execute is started, within the length of run explored, once the
\* runner has taken the result of the one before.
Step ==
    /\ lastOp = NoOutcome
    /\ steps < MaxSteps
    /\ steps' = steps + 1
    /\ UNCHANGED <<pc, loc, certVars>>

\* The runner takes the result of the Execute that returned.
Collect ==
    /\ lastOp # NoOutcome
    /\ lastOp' = NoOutcome
    /\ UNCHANGED <<envFile, hostCache, cache, heap, pc, loc, steps, certVars>>

GetStatus(h) == Step /\ \E fileErr, cmdErr \in BOOLEAN : DoGetStatus(h, fileErr, cmdErr)

GenerateAccessAddress(h) == Step /\ DoGenerateAccessAddress(h)

HealthCheck(h) == Step /\ \E cmdErr \in BOOLEAN : DoHealthCheck(h, cmdErr)

GenerateConfig(h) == Step /\ \E renderErr \in BOOLEAN : DoGenerateConfig(h, renderErr)

RefreshConfig(h) ==
    Step /\ \E toExisting, renderErr \in BOOLEAN : DoRefreshConfig(h, toExisting, renderErr)

JoinMember(h) == Step /\ \E cmdErr \in BOOLEAN : DoJoinMember(h, cmdErr)

CheckMember(h) ==
    Step /\ \E cmdErr \in BOOLEAN, memberList \in MemberLists :
                DoCheckMember(h, cmdErr, memberList)

Next ==
    \/ \E h \in Hosts :
            \/ GetStatus(h)
            \/ GenerateAccessAddress(h)
            \/ HealthCheck(h)
            \/ GenerateConfig(h)
            \/ RefreshConfig(h)
            \/ JoinMember(h)
            \/ CheckMember(h)
    \/ Collect

Spec == Init /\ [][Next]_vars

----------------------------------------------------------------------------
(* Each host probed and configured once, hosts taken one after another *)

InitOnce ==
    /\ InitStores
    /\ pc = [h \in Hosts |-> "start"]

\* GetStatus for a host not yet probed.
ProbeHost(h) ==
    /\ pc[h] = "start"
    /\ \E fileErr, cmdErr \in BOOLEAN : DoGetStatus(h, fileErr, cmdErr)
    /\ pc' = [pc EXCEPT ![h] = IF lastOp'.err = Nil THEN "probed" ELSE "failed"]
    /\ UNCHANGED <<loc, steps, certVars>>

\* GenerateConfig for a host that was probed.
ConfigureHost(h) ==
    /\ pc[h] = "probed"
    /\ \E renderErr \in BOOLEAN : DoGenerateConfig(h, renderErr)
    /\ pc' = [pc EXCEPT ![h] = IF lastOp'.err = Nil THEN "done" ELSE "failed"]
    /\ UNCHANGED <<loc, steps, certVars>>

NextOnce == \E h \in Hosts : ProbeHost(h) \/ ConfigureHost(h)

SpecOnce == InitOnce /\ [][NextOnce]_vars

----------------------------------------------------------------------------
(* Host units run in parallel: every host runs GetStatus and then           *)
(* GenerateConfig, and the accesses of different hosts to the pipeline      *)
(* cache and to the fields of the shared EtcdCluster interleave.  Nothing   *)
(* in the tasks orders them.  A slice, with its contents, is read and       *)
(* written as one value.                                                    *)

InitPar ==
    /\ InitStores
    /\ pc = [h \in Hosts |-> "start"]

Goto(h, label) == pc' = [pc EXCEPT ![h] = label]
SetLocals(h, l) == loc' = [loc EXCEPT ![h] = l]
OwnEntry(h) == PeerEntry(NameOf(h), h)
\* The EtcdCluster host h holds a pointer to.
Held(h) == loc[h].c[1]

\* GetStatus up to the branch on exist: FileExist, the cluster literal, and
\* for a marker file the cat command and the host cache, else the host cache.
ParProbe(h) ==
    /\ pc[h] = "start"
    /\ \E fileErr, cmdErr \in BOOLEAN :
          LET exist == envFile[h] # <<>>
          IN  IF fileErr \/ (exist /\ cmdErr)
              THEN Goto(h, "failed") /\ UNCHANGED <<hostCache, heap>>
              ELSE /\ hostCache' = [hostCache EXCEPT ![h] =
                          IF exist
                          THEN <<[ETCDName |-> ParseEtcdName(EtcdEnvLine(h)), ETCDExist |-> TRUE]>>
                          ELSE <<[ETCDName |-> DefaultEtcdName(h), ETCDExist |-> FALSE]>>]
                   /\ heap' = [heap EXCEPT ![h] = FreshCluster]
                   /\ Goto(h, "gs_get")
    /\ UNCHANGED <<envFile, cache, lastOp, loc, steps, certVars>>

\* GetStatus: PipelineCache.Get, and what each branch does to its own
\* cluster literal before any other host can see it.
ParStatusGet(h) ==
    /\ pc[h] = "gs_get"
    /\ LET exist == hostCache[h][1].ETCDExist
       IN  IF CacheOk
           THEN /\ SetLocals(h, [loc[h] EXCEPT !.c = cache])
                /\ Goto(h, IF exist THEN "gs_read" ELSE "probed")
                /\ UNCHANGED heap
           ELSE /\ SetLocals(h, [loc[h] EXCEPT !.c = <<h>>])
                /\ heap' = [heap EXCEPT ![h] =
                                IF exist THEN FirstMember(OwnEntry(h)) ELSE FirstNonMember]
                /\ Goto(h, "gs_set")
    /\ UNCHANGED <<envFile, hostCache, cache, lastOp, steps, certVars>>

\* The read of c.peerAddresses by append.
ParStatusRead(h) ==
    /\ pc[h] = "gs_read"
    /\ SetLocals(h, [loc[h] EXCEPT !.peers = heap[Held(h)].peerAddresses])
    /\ Goto(h, "gs_write")
    /\ UNCHANGED <<envFile, hostCache, cache, heap, lastOp, steps, certVars>>

\* c.peerAddresses = the slice read, with the entry appended.
ParStatusWrite(h) ==
    /\ pc[h] = "gs_write"
    /\ heap' = [heap EXCEPT ![Held(h)].peerAddresses = Append(loc[h].peers, OwnEntry(h))]
    /\ SetLocals(h, [loc[h] EXCEPT !.peers = <<>>])
    /\ Goto(h, "gs_exist")
    /\ UNCHANGED <<envFile, hostCache, cache, lastOp, steps, certVars>>

\* c.clusterExist = true
ParStatusExist(h) ==
    /\ pc[h] = "gs_exist"
    /\ heap' = [heap EXCEPT ![Held(h)].clusterExist = TRUE]
    /\ Goto(h, "gs_set")
    /\ UNCHANGED <<envFile, hostCache, cache, lastOp, loc, steps, certVars>>

\* PipelineCache.Set(common.ETCDCluster, c), and GetStatus returns.
ParStatusSet(h) ==
    /\ pc[h] = "gs_set"
    /\ cache' = loc[h].c
    /\ SetLocals(h, NoLocals)
    /\ Goto(h, "probed")
    /\ UNCHANGED <<envFile, hostCache, heap, lastOp, steps, certVars>>

\* GenerateConfig: the host cache and PipelineCache.Get.
ParConfigGet(h) ==
    /\ pc[h] = "probed"
    /\ IF NameOk(h) /\ CacheOk
       THEN SetLocals(h, [loc[h] EXCEPT !.c = cache]) /\ Goto(h, "gc_read")
       ELSE UNCHANGED loc /\ Goto(h, "failed")
    /\ UNCHANGED <<envFile, hostCache, cache, heap, lastOp, steps, certVars>>

\* The read of cluster.peerAddresses by append.
ParConfigRead(h) ==
    /\ pc[h] = "gc_read"
    /\ SetLocals(h, [loc[h] EXCEPT !.peers = heap[Held(h)].peerAddresses])
    /\ Goto(h, "gc_write")
    /\ UNCHANGED <<envFile, hostCache, cache, heap, lastOp, steps, certVars>>

\* cluster.peerAddresses = the slice read, with the entry appended.
ParConfigWrite(h) ==
    /\ pc[h] = "gc_write"
    /\ heap' = [heap EXCEPT ![Held(h)].peerAddresses = Append(loc[h].peers, OwnEntry(h))]
    /\ SetLocals(h, [loc[h] EXCEPT !.peers = <<>>])
    /\ Goto(h, "gc_set")
    /\ UNCHANGED <<envFile, hostCache, cache, lastOp, steps, certVars>>

\* PipelineCache.Set(common.ETCDCluster, cluster)
ParConfigSet(h) ==
    /\ pc[h] = "gc_set"
    /\ cache' = loc[h].c
    /\ Goto(h, "gc_state")
    /\ UNCHANGED <<envFile, hostCache, heap, lastOp, loc, steps, certVars>>

\* The read of cluster.clusterExist that chooses the State.
ParConfigState(h) ==
    /\ pc[h] = "gc_state"
    /\ SetLocals(h, [loc[h] EXCEPT !.token = ConfigState(heap[Held(h)])])
    /\ Goto(h, "gc_render")
    /\ UNCHANGED <<envFile, hostCache, cache, heap, lastOp, steps, certVars>>

\* refreshConfig with cluster.peerAddresses as it is now, and GenerateConfig
\* returns.
ParConfigRender(h) ==
    /\ pc[h] = "gc_render"
    /\ \E renderErr \in BOOLEAN :
          LET data == RenderData(h, ConfigEndpoints(heap[Held(h)]), loc[h].token, NameOf(h))
          IN  /\ envFile' = IF renderErr THEN envFile
                            ELSE [envFile EXCEPT ![h] = <<data.Name>>]
              /\ SetLocals(h, [NoLocals EXCEPT !.token = data.State,
                                               !.rendered = data.peerAddresses])
              /\ Goto(h, IF renderErr THEN "failed" ELSE "done")
    /\ UNCHANGED <<hostCache, cache, heap, lastOp, steps, certVars>>

\* The hosts dispatched in parallel: the first NumParallel of the inventory.
ParHosts == {h \in Hosts : h <= NumParallel}

NextPar ==
    \E h \in ParHosts :
        \/ ParProbe(h)
        \/ ParStatusGet(h)
        \/ ParStatusRead(h)
        \/ ParStatusWrite(h)
        \/ ParStatusExist(h)
        \/ ParStatusSet(h)
        \/ ParConfigGet(h)
        \/ ParConfigRead(h)
        \/ ParConfigWrite(h)
        \/ ParConfigSet(h)
        \/ ParConfigState(h)
        \/ ParConfigRender(h)

SpecPar == InitPar /\ [][NextPar]_vars

----------------------------------------------------------------------------
(* The certificate tasks: ExecCertsScript runs once, on one host, and       *)
(* SyncCertsFile runs for any host at any time, before or after it.         *)

\* The task is dispatched to the first host of the etcd role only.
FirstETCDNode(h) == roles.etcd # <<>> /\ h = roles.etcd[1]

\* ExecCertsScript on host h, the one generation of the run.
ExecCertsScript(h) ==
    /\ FirstETCDNode(h)
    /\ \A g \in Hosts : pc[g] = "idle"
    /\ \E step \in Range(ExecSteps) \cup {"none"}, failAt \in 1..MaxFailAt :
          /\ step # "fetch" => failAt = 1
          /\ DoExecCertsScript(h, step, failAt)
    /\ pc' = [pc EXCEPT ![h] = IF lastOp'.err = Nil THEN "certs_ok" ELSE "certs_failed"]
    /\ UNCHANGED clusterVars

SyncCertsFile(h) ==
    /\ \E failAt \in 0..MaxFailAt : DoSyncCertsFile(h, failAt)
    /\ UNCHANGED <<clusterVars, pc>>

NextCerts == \E h \in Hosts : ExecCertsScript(h) \/ SyncCertsFile(h)

SpecCerts == Init /\ [][NextCerts]_vars

----------------------------------------------------------------------------
(* The derivation of the certificate file list, for every assignment of     *)
(* the two roles to hosts and every order of the hosts of a role.           *)

\* The sequences of distinct hosts.
HostLists ==
    UNION {{q \in [1..n -> Hosts] : \A i, j \in 1..n : i # j => q[i] # q[j]} :
               n \in 0..NumHosts}

InitDerive ==
    /\ roles \in [etcd : HostLists, master : HostLists]
    /\ moduleCache = EmptyModuleCache
    /\ staged = {}
    /\ pushed = [h \in Hosts |-> {}]
    /\ envFile = [h \in Hosts |-> <<>>]
    /\ hostCache = [h \in Hosts |-> <<>>]
    /\ cache = <<>>
    /\ heap = [o \in Hosts |-> FreshCluster]
    /\ lastOp = NoOutcome
    /\ loc = [h \in Hosts |-> NoLocals]
    /\ steps = 0
    /\ pc = [h \in Hosts |-> "idle"]

\* ExecCertsScript on host h, which derives the file list from the roles.
DeriveCerts(h) ==
    /\ FirstETCDNode(h)
    /\ \E step \in Range(ExecSteps) \cup {"none"}, failAt \in 1..MaxFailAt :
          /\ step # "fetch" => failAt = 1
          /\ DoExecCertsScript(h, step, failAt)
    /\ UNCHANGED <<clusterVars, pc>>

NextDerive == \E h \in Hosts : DeriveCerts(h)

SpecDerive == InitDerive /\ [][NextDerive]_vars

----------------------------------------------------------------------------
(* Properties *)

\* peerAddresses of the shared cluster state, empty while there is none.
Peers == IF CacheOk THEN Cluster.peerAddresses ELSE <<>>

NoDuplicateNames(peers) ==
    \A i, j \in 1..Len(peers) : i # j => EntryName(peers[i]) # EntryName(peers[j])

HasEntryOf(peers, h) == \E i \in 1..Len(peers) : peers[i] = PeerEntry(NameOf(h), h)

\* C1: when some hosts have each been probed and configured once (GetStatus
\* then GenerateConfig, one host after another) and the others not at all,
\* peerAddresses has one entry per such host and no member name twice.
C1_OneEntryPerHost ==
    (\A h \in Hosts : pc[h] \in {"start", "done"}) =>
        /\ Len(Peers) = Cardinality({h \in Hosts : pc[h] = "done"})
        /\ NoDuplicateNames(Peers)

\* C2: in every reachable state no two entries of peerAddresses carry the
\* same member name.
C2_NoDuplicateNames == NoDuplicateNames(Peers)

\* C3: once clusterExist of the shared state is true, no task makes it false.
C3_ExistsMonotone ==
    [][(CacheOk /\ Cluster.clusterExist) => (CacheOk' /\ Cluster'.clusterExist)]_vars

\* A probe of a host without the marker file has run while clusterExist was true.
C3_Witness ==
    /\ CacheOk /\ Cluster.clusterExist
    /\ lastOp.op = "GetStatus" /\ lastOp.err = Nil
    /\ ~hostCache[lastOp.host][1].ETCDExist

\* C4: CheckMember returns an error whenever the member list command
\* succeeded and its output lacks the host's client endpoint.
C4_AbsentEndpointFails ==
    (/\ lastOp.op = "CheckMember"
     /\ lastOp.cmd
     /\ ~Contains(lastOp.out, ClientEndpoint(lastOp.host))) => Failed

\* C5: with the host units run in parallel, once every host has finished,
\* peerAddresses of the shared state holds the entry of every host whose
\* GenerateConfig returned without error.
C5_NoEntryLost ==
    (\A h \in ParHosts : pc[h] \in {"done", "failed"}) =>
        \A h \in ParHosts : pc[h] = "done" => HasEntryOf(Peers, h)

\* C6: with the host units run in parallel, a host that found the marker
\* file in its GetStatus (so its GenerateConfig starts after a GetStatus that
\* found a cluster has completed) is never rendered "new".
C6_MemberNeverNew ==
    \A h \in ParHosts :
        (pc[h] = "done" /\ hostCache[h][1].ETCDExist) => loc[h].token # NewCluster

\* C7: GenerateConfig renders "new" exactly when clusterExist of the shared
\* state is false at the time it runs, "existing" otherwise.
C7_TokenFollowsClusterExist ==
    [][(lastOp'.op = "GenerateConfig" /\ lastOp'.token # NoToken) =>
          /\ lastOp'.token \in {NewCluster, ExistCluster}
          /\ lastOp'.token = NewCluster <=> ~Cluster.clusterExist]_vars

\* GenerateConfig rendered "existing" for a host that was no member, and the
\* list held more than one peer.
C7_Witness ==
    /\ lastOp.op = "GenerateConfig" /\ lastOp.token = ExistCluster
    /\ ~hostCache[lastOp.host][1].ETCDExist
    /\ Len(Peers) > 1

C9_RefreshToken ==
    /\ (lastOp.op = "RefreshConfigToExisting" /\ lastOp.token # NoToken)
           => lastOp.token = ExistCluster
    /\ (lastOp.op = "RefreshConfig" /\ lastOp.token # NoToken)
           => (lastOp.token = NewCluster <=> ~Cluster.clusterExist)

\* RefreshConfig with ToExisting rendered "existing" for a host that
\* GenerateConfig had configured while clusterExist was false.
C9_Witness ==
    /\ lastOp.op = "RefreshConfigToExisting" /\ lastOp.token = ExistCluster /\ lastOp.wrote
    /\ ~Cluster.clusterExist
    /\ HasEntryOf(Peers, lastOp.host)

\* The tasks that read the cluster state the Aggregator leaves in the cache.
LaterSteps ==
    {"GenerateAccessAddress", "HealthCheck", "GenerateConfig", "RefreshConfig",
     "RefreshConfigToExisting", "JoinMember", "CheckMember"}

\* C10: a later step run while the cache holds no cluster state returns an
\* error, hands nothing to the template, runs no command and leaves the cache
\* empty.
C10_MissingStateAborts ==
    [][(cache = <<>> /\ lastOp'.op \in LaterSteps) =>
          /\ lastOp'.err # Nil
          /\ lastOp'.token = NoToken /\ ~lastOp'.wrote /\ ~lastOp'.cmd
          /\ cache' = <<>> /\ heap' = heap /\ envFile' = envFile]_vars

\* A later step has returned while the cache held no cluster state.
C10_Witness == cache = <<>> /\ lastOp.op \in LaterSteps /\ Failed

\* C11: a HealthCheck run while the accessAddresses of the cluster state is
\* empty returns an error.
C11_EmptyAccessFails ==
    (lastOp.op = "HealthCheck" /\ CacheOk /\ Cluster.accessAddresses = <<>>) => Failed

\* Host h had no /etc/etcd.env when it was probed, or has none and is yet to
\* be probed.
NoMarker(h) == IF NameOk(h) THEN ~hostCache[h][1].ETCDExist ELSE envFile[h] = <<>>

\* C12: with no marker file on any host and the hosts probed and configured
\* one after another, clusterExist is false from the first probe on, every
\* GenerateConfig renders "new", and once every host is configured
\* peerAddresses has one entry per host.
C12_FreshClusterScenario ==
    (\A h \in Hosts : NoMarker(h)) =>
        /\ (\E h \in Hosts : pc[h] \in {"probed", "done"}) => CacheOk
        /\ CacheOk => ~Cluster.clusterExist
        /\ (lastOp.op = "GenerateConfig" /\ lastOp.token # NoToken)
               => lastOp.token = NewCluster
        /\ (\A h \in Hosts : pc[h] = "done")
               => /\ Len(Peers) = NumHosts
                  /\ \A h \in Hosts : HasEntryOf(Peers, h)

\* Every host, none with a marker file, has been probed and configured, the
\* last one rendered "new", and peerAddresses has one entry per host.
C12_Witness ==
    /\ \A h \in Hosts : NoMarker(h) /\ pc[h] = "done"
    /\ lastOp.op = "GenerateConfig" /\ lastOp.token = NewCluster /\ lastOp.wrote
    /\ Len(Peers) = NumHosts /\ ~Cluster.clusterExist

\* The error comes from a call made through the runner or from the template:
\* it is none of the errors the tasks raise themselves for a missing cache
\* entry.
ExternalFailure(err) == err \notin {Nil, ErrNoNode, ErrNoCluster}

\* C17: a task that returns the error of a failed external call leaves the
\* pipeline cache and the cluster state it points to as they were before the
\* task ran.
C17_FailureLeavesState ==
    [][(lastOp'.op # "none" /\ ExternalFailure(lastOp'.err))
          => (cache' = cache /\ heap' = heap)]_vars

\* s is a prefix of t.
IsPrefix(s, t) == Len(s) <= Len(t) /\ SubSeq(t, 1, Len(s)) = s

\* C18: the peerAddresses before a task is a prefix of the peerAddresses
\* after it.
C18_PeersGrowByAppending == [][IsPrefix(Peers, Peers')]_vars

\* GenerateConfig has appended to a list that already had an entry.
C18_Witness ==
    /\ lastOp.op = "GenerateConfig" /\ lastOp.token # NoToken
    /\ Len(Peers) >= 2 /\ Peers[1] # Peers[Len(Peers)]

\* s lists the client endpoints of hosts, in order, with a comma between
\* two of them (an endpoint is three tokens long).
IsEndpointList(s, hosts) ==
    /\ Len(s) = 4 * Len(hosts) - 1
    /\ \A i \in 1..Len(hosts) :
          /\ SubSeq(s, 4 * i - 3, 4 * i - 1)
                 = <<"https://">> \o GetInternalAddress(hosts[i]) \o <<":2379">>
          /\ i < Len(hosts) => s[4 * i] = ","

\* C19: a GenerateAccessAddress that succeeds leaves accessAddresses the
\* comma-join of the client endpoints of the hosts of the etcd role, changes
\* neither clusterExist nor peerAddresses nor what the cache points to, and
\* changes nothing at all when accessAddresses had that value already.
C19_AccessAddresses ==
    [][(lastOp'.op = "GenerateAccessAddress" /\ lastOp'.err = Nil) =>
          /\ CacheOk /\ cache' = cache
          /\ IsEndpointList(Cluster'.accessAddresses, roles.etcd)
          /\ Cluster'.clusterExist = Cluster.clusterExist
          /\ Cluster'.peerAddresses = Cluster.peerAddresses
          /\ <<envFile', hostCache'>> = <<envFile, hostCache>>
          /\ IsEndpointList(Cluster.accessAddresses, roles.etcd) => heap' = heap]_vars

\* GenerateAccessAddress has succeeded, run for a host other than the one
\* whose GetStatus stored the cluster, on a cluster with a peer entry.
C19_Witness ==
    /\ lastOp.op = "GenerateAccessAddress" /\ ~Failed
    /\ lastOp.host # cache[1]
    /\ Len(Peers) >= 1
    /\ Cluster.accessAddresses # <<>>

\* The tasks that only read the cluster state.
ReadOnlySteps ==
    {"HealthCheck", "RefreshConfig", "RefreshConfigToExisting", "JoinMember", "CheckMember"}

\* C20: RefreshConfig, JoinMember, CheckMember and HealthCheck, whether they
\* succeed or fail, leave the cache and the cluster state as they were.
C20_ReadOnlySteps ==
    [][lastOp'.op \in ReadOnlySteps => (cache' = cache /\ heap' = heap)]_vars

\* JoinMember has succeeded on a cluster that has peer entries.
C20_Witness ==
    /\ lastOp.op = "JoinMember" /\ ~Failed /\ lastOp.cmd
    /\ Len(Peers) >= 1

CaFiles == {<<"ca.pem">>, <<"ca-key.pem">>}

\* The files host h needs: the CA, its admin and member files if it has the
\* etcd role, its node files if it has the master role.
NeededBy(h) ==
    CaFiles
      \cup (IF h \in Range(roles.etcd) THEN Range(MemberCerts(h)) ELSE {})
      \cup (IF h \in Range(roles.master) THEN Range(NodeCerts(h)) ELSE {})

\* C13: the files pushed to a host are among the files that host needs.
C13_OnlyNeededFiles == \A h \in Hosts : pushed[h] \subseteq NeededBy(h)

\* ExecCertsScript has returned an error.
ExecFailed == \E h \in Hosts : pc[h] = "certs_failed"

\* C14: once ExecCertsScript has failed, neither key of the ModuleCache is
\* set, every SyncCertsFile returns an error without a transfer, and no
\* host has been pushed a file.
C14_FailedExecBlocksSync ==
    ExecFailed =>
        /\ moduleCache = EmptyModuleCache
        /\ lastOp.op = "ExecCertsScript" => Failed
        /\ lastOp.op = "SyncCertsFile" => (Failed /\ ~lastOp.cmd)
        /\ \A h \in Hosts : pushed[h] = {}

\* SyncCertsFile has returned after an ExecCertsScript that failed at a
\* Fetch, with a file already fetched.
C14_Witness ==
    /\ ExecFailed /\ staged # {}
    /\ lastOp.op = "SyncCertsFile" /\ Failed

\* The orders in which the hosts of s can be listed.
PermsOf(s) == {q \in [1..Len(s) -> Range(s)] : Range(q) = Range(s)}

\* C15: the set of file names ExecCertsScript derived is the set derived
\* from the same hosts of each role listed in any order, the order at hand
\* included.
C15_DeriveOrderIndependent ==
    moduleCache[CertsFileList] # <<>> =>
        \A q \in [etcd : PermsOf(roles.etcd), master : PermsOf(roles.master)] :
            Range(generateCertsFiles(q)) = Range(moduleCache[CertsFileList][1])

\* The list was derived from two roles of several hosts each, the hosts of
\* the etcd role not in inventory order.
C15_Witness ==
    /\ moduleCache[CertsFileList] # <<>>
    /\ Len(roles.etcd) >= 2 /\ roles.etcd[1] > roles.etcd[2]
    /\ Len(roles.master) >= 2 /\ roles.master[1] < roles.master[2]

====
